---- MODULE Spec2Model ----
(***************************************************************************)
(* A model of the WebGIS-Django API: the feature tables (DemoPoint,        *)
(* DemoPolygon, DemoLine), the CustomUser table, and the request handlers  *)
(* of api/api.py that read and write them.                                 *)
(*                                                                         *)
(* A table is a function from the ids of its rows to the rows; a request   *)
(* is one atomic action that may change a table and always leaves its      *)
(* response in resp.  Geometries live on the integer grid 0..MaxCoord;     *)
(* the point set of a geometry is the set of the grid's vertices, open     *)
(* edges and open cells it covers (coordinates doubled: an even number 2k  *)
(* is the grid line k, an odd number 2k+1 the open interval (k, k+1)), so  *)
(* that boundaries, touching and closure are exact for grid geometries.    *)
(***************************************************************************)
EXTENDS Integers, Sequences, FiniteSets, TLC

\* ---- bounds of the model
\* rows a table's id sequence hands out
MaxId == 2
\* the grid is 0..MaxCoord wide and 0..MaxY high
MaxCoord == 3
MaxY == 2
\* characters of an email address
MaxEmailLen == 2
\* feature rows one run creates, over the three feature tables
MaxCreates == 3

\* ---- the SRID of the geometry fields
SRID == 4326

Names == {"a", "b"}
Ids == 1..MaxId
Coords == 0..MaxCoord
\* Points lie on the bottom edge of the grid or on the row above it, which is
\* inside every strip.
PointYs == {0, 1}

VARIABLES
    points, point_seq,       \* the DemoPoint table and its id sequence
    polygons, polygon_seq,   \* the DemoPolygon table and its id sequence
    lines, line_seq,         \* the DemoLine table and its id sequence
    users, user_seq,         \* the CustomUser table and its id sequence
    resp,                    \* the response to the last request
    latest                   \* history: per table and live id, the payload last written

vars == <<points, point_seq, polygons, polygon_seq, lines, line_seq,
          users, user_seq, resp, latest>>

\* The feature rows created so far.
Created == point_seq + polygon_seq + line_seq

pointVars == <<points, point_seq>>
polygonVars == <<polygons, polygon_seq>>
lineVars == <<lines, line_seq>>
userVars == <<users, user_seq>>
tables == <<points, point_seq, polygons, polygon_seq, lines, line_seq, users, user_seq, latest>>

\* ---------------------------------------------------------------- geometry

\* Point(x, y): a point geometry.
Point(x, y) == [geom_type |-> "Point", srid |-> SRID, coords |-> <<x, y>>]

\* The exterior ring of the rectangle (minx, miny, maxx, maxy), closed.
Ring(minx, miny, maxx, maxy) ==
    << <<minx, miny>>, <<minx, maxy>>, <<maxx, maxy>>, <<maxx, miny>>, <<minx, miny>> >>

\* Polygon.from_bbox((minx, miny, maxx, maxy))
from_bbox(minx, miny, maxx, maxy) ==
    [geom_type |-> "Polygon", srid |-> SRID, coords |-> Ring(minx, miny, maxx, maxy)]

\* GEOSGeometry(geojson): parse a GeoJSON document into a geometry; GeoJSON
\* input carries no SRID and gets the field's.
GEOSGeometry(doc) == [geom_type |-> doc.type, srid |-> SRID, coords |-> doc.coordinates]

\* geom.geojson and AsGeoJSON('geom'): the GeoJSON document of a stored
\* geometry, which names no SRID.
geojson(geom) == [type |-> geom.geom_type, coordinates |-> geom.coords]

\* The rectangles of the grid that span its whole height.
Strips == { s \in Coords \X Coords : s[1] < s[2] }

\* The GeoJSON documents the requests carry: the strips as polygons, and the
\* two-vertex lines along the bottom of the grid.
PolygonDoc(minx, maxx) == [type |-> "Polygon", coordinates |-> Ring(minx, 0, maxx, MaxY)]
PolygonDocs == { PolygonDoc(s[1], s[2]) : s \in Strips }

LineDoc(minx, maxx) == [type |-> "LineString", coordinates |-> << <<minx, 0>>, <<maxx, 0>> >>]
LineDocs == { LineDoc(s[1], s[2]) : s \in Strips }

Min(S) == CHOOSE m \in S : \A n \in S : m <= n
Max(S) == CHOOSE m \in S : \A n \in S : m >= n

Xs(geom) == { geom.coords[i][1] : i \in DOMAIN geom.coords }
Ys(geom) == { geom.coords[i][2] : i \in DOMAIN geom.coords }

\* The point set of a point or of a rectangular polygon (closed).
Cells(geom) ==
    IF geom.geom_type = "Point"
    THEN { <<2 * geom.coords[1], 2 * geom.coords[2]>> }
    ELSE (2 * Min(Xs(geom)) .. 2 * Max(Xs(geom))) \X (2 * Min(Ys(geom)) .. 2 * Max(Ys(geom)))

\* The interior of a point (itself) or of a rectangular polygon (open).
Interior(geom) ==
    IF geom.geom_type = "Point"
    THEN { <<2 * geom.coords[1], 2 * geom.coords[2]>> }
    ELSE (2 * Min(Xs(geom)) + 1 .. 2 * Max(Xs(geom)) - 1)
            \X (2 * Min(Ys(geom)) + 1 .. 2 * Max(Ys(geom)) - 1)

\* The closure of a set of vertices, open edges and open cells.
Faces(a) == IF a % 2 = 1 THEN {a - 1, a, a + 1} ELSE {a}
Closure(S) == UNION { Faces(c[1]) \X Faces(c[2]) : c \in S }

\* geom__intersects: the geometries share a point.
Intersects(a, b) == Cells(a) \cap Cells(b) # {}

\* geom__within: a lies in b and their interiors meet.
Within(a, b) == Cells(a) \subseteq Cells(b) /\ Interior(a) \cap Interior(b) # {}

\* ---------------------------------------------------------------- responses

\* An exception left the handler: a 500.
Raised(op, args, exc) == [op |-> op, args |-> args, status |-> 500, body |-> [error |-> exc]]

\* Model.objects.get(id=...) found no row, in a handler that does not catch it.
ServerError(op, args) == Raised(op, args, "DoesNotExist")

Ok(op, args, body) == [op |-> op, args |-> args, status |-> 200, body |-> body]

\* JsonResponse({"error": msg}, status=404)
NotFound(op, args, msg) == [op |-> op, args |-> args, status |-> 404, body |-> [error |-> msg]]

\* Model.objects.create: the row under the next id of the table's sequence.
Insert(table, id, row) == [i \in DOMAIN table \cup {id} |-> IF i = id THEN row ELSE table[i]]

\* QuerySet.filter(id=...).delete()
Delete(table, id) == [i \in DOMAIN table \ {id} |-> table[i]]

\* ---------------------------------------------------------------- points

PointOut(id, row) ==
    [id |-> id, name |-> row.name, lng |-> row.geom.coords[1], lat |-> row.geom.coords[2]]

create_point(name, lng, lat) ==
    /\ point_seq < MaxId
    /\ LET id == point_seq + 1
           row == [name |-> name, geom |-> Point(lng, lat)]
       IN /\ points' = Insert(points, id, row)
          /\ point_seq' = id
          /\ resp' = Ok("create_point", <<name, lng, lat>>, PointOut(id, row))
          /\ latest' = [latest EXCEPT !.points = Insert(@, id, <<name, lng, lat>>)]
    /\ UNCHANGED <<polygonVars, lineVars, userVars>>

get_point(point_id) ==
    /\ resp' = IF point_id \in DOMAIN points
               THEN Ok("get_point", <<point_id>>, PointOut(point_id, points[point_id]))
               ELSE ServerError("get_point", <<point_id>>)
    /\ UNCHANGED tables

\* update_point with the coordinates the wrong way round.
update_point_swapped(point_id, name, lng, lat) ==
    IF point_id \in DOMAIN points
    THEN LET row == [name |-> name, geom |-> Point(lat, lng)]
         IN /\ points' = [points EXCEPT ![point_id] = row]
            /\ resp' = Ok("update_point", <<point_id, name, lng, lat>>, PointOut(point_id, row))
            /\ latest' = [latest EXCEPT !.points[point_id] = <<name, lng, lat>>]
            /\ UNCHANGED <<point_seq, polygonVars, lineVars, userVars>>
    ELSE /\ resp' = ServerError("update_point", <<point_id, name, lng, lat>>)
         /\ UNCHANGED tables

update_point(point_id, name, lng, lat) ==
    IF point_id \in DOMAIN points
    THEN LET row == [name |-> name, geom |-> Point(lng, lat)]
         IN /\ points' = [points EXCEPT ![point_id] = row]
            /\ resp' = Ok("update_point", <<point_id, name, lng, lat>>, PointOut(point_id, row))
            /\ latest' = [latest EXCEPT !.points[point_id] = <<name, lng, lat>>]
            /\ UNCHANGED <<point_seq, polygonVars, lineVars, userVars>>
    ELSE /\ resp' = ServerError("update_point", <<point_id, name, lng, lat>>)
         /\ UNCHANGED tables

delete_point(point_id) ==
    /\ points' = Delete(points, point_id)
    /\ resp' = Ok("delete_point", <<point_id>>, [success |-> TRUE])
    /\ latest' = [latest EXCEPT !.points = Delete(@, point_id)]
    /\ UNCHANGED <<point_seq, polygonVars, lineVars, userVars>>

\* ---------------------------------------------------------------- polygons

PolygonOut(id, row) == [id |-> id, name |-> row.name, geojson |-> geojson(row.geom)]

create_polygon(name, doc) ==
    /\ polygon_seq < MaxId
    /\ LET id == polygon_seq + 1
           row == [name |-> name, geom |-> GEOSGeometry(doc)]
       IN /\ polygons' = Insert(polygons, id, row)
          /\ polygon_seq' = id
          /\ resp' = Ok("create_polygon", <<name, doc>>, PolygonOut(id, row))
          /\ latest' = [latest EXCEPT !.polygons = Insert(@, id, <<name, doc>>)]
    /\ UNCHANGED <<pointVars, lineVars, userVars>>

get_polygon(polygon_id) ==
    /\ resp' = IF polygon_id \in DOMAIN polygons
               THEN Ok("get_polygon", <<polygon_id>>, PolygonOut(polygon_id, polygons[polygon_id]))
               ELSE ServerError("get_polygon", <<polygon_id>>)
    /\ UNCHANGED tables

update_polygon(polygon_id, name, doc) ==
    IF polygon_id \in DOMAIN polygons
    THEN LET row == [name |-> name, geom |-> GEOSGeometry(doc)]
         IN /\ polygons' = [polygons EXCEPT ![polygon_id] = row]
            /\ resp' = Ok("update_polygon", <<polygon_id, name, doc>>, PolygonOut(polygon_id, row))
            /\ latest' = [latest EXCEPT !.polygons[polygon_id] = <<name, doc>>]
            /\ UNCHANGED <<polygon_seq, pointVars, lineVars, userVars>>
    ELSE /\ resp' = ServerError("update_polygon", <<polygon_id, name, doc>>)
         /\ UNCHANGED tables

delete_polygon(polygon_id) ==
    /\ polygons' = Delete(polygons, polygon_id)
    /\ resp' = Ok("delete_polygon", <<polygon_id>>, [success |-> TRUE])
    /\ latest' = [latest EXCEPT !.polygons = Delete(@, polygon_id)]
    /\ UNCHANGED <<polygon_seq, pointVars, lineVars, userVars>>

\* ---------------------------------------------------------------- lines

LineOut(id, row) == [id |-> id, name |-> row.name, geojson |-> geojson(row.geom)]

create_line(name, doc) ==
    /\ line_seq < MaxId
    /\ LET id == line_seq + 1
           row == [name |-> name, geom |-> GEOSGeometry(doc)]
       IN /\ lines' = Insert(lines, id, row)
          /\ line_seq' = id
          /\ resp' = Ok("create_line", <<name, doc>>, LineOut(id, row))
          /\ latest' = [latest EXCEPT !.lines = Insert(@, id, <<name, doc>>)]
    /\ UNCHANGED <<pointVars, polygonVars, userVars>>

get_line(line_id) ==
    /\ resp' = IF line_id \in DOMAIN lines
               THEN Ok("get_line", <<line_id>>, LineOut(line_id, lines[line_id]))
               ELSE ServerError("get_line", <<line_id>>)
    /\ UNCHANGED tables

update_line(line_id, name, doc) ==
    IF line_id \in DOMAIN lines
    THEN LET row == [name |-> name, geom |-> GEOSGeometry(doc)]
         IN /\ lines' = [lines EXCEPT ![line_id] = row]
            /\ resp' = Ok("update_line", <<line_id, name, doc>>, LineOut(line_id, row))
            /\ latest' = [latest EXCEPT !.lines[line_id] = <<name, doc>>]
            /\ UNCHANGED <<line_seq, pointVars, polygonVars, userVars>>
    ELSE /\ resp' = ServerError("update_line", <<line_id, name, doc>>)
         /\ UNCHANGED tables

delete_line(line_id) ==
    /\ lines' = Delete(lines, line_id)
    /\ resp' = Ok("delete_line", <<line_id>>, [success |-> TRUE])
    /\ latest' = [latest EXCEPT !.lines = Delete(@, line_id)]
    /\ UNCHANGED <<line_seq, pointVars, polygonVars, userVars>>

\* ---------------------------------------------------------------- specifications

Empty == [i \in {} |-> 0]

Init ==
    /\ points = Empty /\ point_seq = 0
    /\ polygons = Empty /\ polygon_seq = 0
    /\ lines = Empty /\ line_seq = 0
    /\ users = Empty /\ user_seq = 0
    /\ resp = [op |-> "none", args |-> <<>>, status |-> 0, body |-> [none |-> TRUE]]
    /\ latest = [points |-> Empty, polygons |-> Empty, lines |-> Empty]

\* The create, read, update and delete requests of the three feature tables.
\* The handlers never look into a payload, so two payloads that differ in
\* every field stand for all of them.
PointPayloads == { <<"a", 0, 1>>, <<"b", 1, 0>> }
PolygonPayloads == { <<"a", PolygonDoc(0, 1)>>, <<"b", PolygonDoc(1, 3)>> }
LinePayloads == { <<"a", LineDoc(0, 1)>>, <<"b", LineDoc(1, 3)>> }

CrudNext ==
    \/ \E p \in PointPayloads : Created < MaxCreates /\ create_point(p[1], p[2], p[3])
    \/ \E id \in Ids : get_point(id)
    \/ \E id \in Ids, p \in PointPayloads : update_point(id, p[1], p[2], p[3])
    \/ \E id \in Ids : delete_point(id)
    \/ \E p \in PolygonPayloads : Created < MaxCreates /\ create_polygon(p[1], p[2])
    \/ \E id \in Ids : get_polygon(id)
    \/ \E id \in Ids, p \in PolygonPayloads : update_polygon(id, p[1], p[2])
    \/ \E id \in Ids : delete_polygon(id)
    \/ \E p \in LinePayloads : Created < MaxCreates /\ create_line(p[1], p[2])
    \/ \E id \in Ids : get_line(id)
    \/ \E id \in Ids, p \in LinePayloads : update_line(id, p[1], p[2])
    \/ \E id \in Ids : delete_line(id)

SpecCrud == Init /\ [][CrudNext]_vars

\* ---------------------------------------------------------------- C1

\* C1: after any sequence of create, update and delete requests, a get of an
\* id that was created and not deleted since answers 200 with that id and
\* the name and coordinates (for polygons and lines: the name and the GeoJSON
\* geometry) of the most recent create or update of that id.
GetReturnsLatestWrite ==
    /\ resp.op = "get_point" /\ resp.args[1] \in DOMAIN latest.points =>
          LET w == latest.points[resp.args[1]]
          IN /\ resp.status = 200
             /\ resp.body = [id |-> resp.args[1], name |-> w[1], lng |-> w[2], lat |-> w[3]]
    /\ resp.op = "get_polygon" /\ resp.args[1] \in DOMAIN latest.polygons =>
          LET w == latest.polygons[resp.args[1]]
          IN /\ resp.status = 200
             /\ resp.body = [id |-> resp.args[1], name |-> w[1], geojson |-> w[2]]
    /\ resp.op = "get_line" /\ resp.args[1] \in DOMAIN latest.lines =>
          LET w == latest.lines[resp.args[1]]
          IN /\ resp.status = 200
             /\ resp.body = [id |-> resp.args[1], name |-> w[1], geojson |-> w[2]]

\* A point that was created second, updated, and read back after the first
\* point was deleted.
GetAfterUpdateWitness ==
    /\ resp.op = "get_point" /\ resp.status = 200 /\ resp.args[1] = 2
    /\ 1 \notin DOMAIN points
    /\ resp.body.name = "b" /\ resp.body.lng = 1 /\ resp.body.lat = 0
    /\ DOMAIN latest.polygons # {}

\* ---------------------------------------------------------------- queries

\* A geometry computed by the engine, known by its point set; None is JSON's
\* null.
Computed(cells) == [cells |-> cells]
None == [null |-> TRUE]

\* .values('id', 'name', 'geojson') of the rows of a table with these ids.
Values(table, ids) ==
    { [id |-> i, name |-> table[i].name, geojson |-> geojson(table[i].geom)] : i \in ids }

polygons_in_bbox(minx, miny, maxx, maxy) ==
    /\ LET bbox == from_bbox(minx, miny, maxx, maxy)
           found == { i \in DOMAIN polygons : Intersects(polygons[i].geom, bbox) }
       IN resp' = Ok("polygons_in_bbox", <<minx, miny, maxx, maxy>>,
                     [polygons |-> Values(polygons, found)])
    /\ UNCHANGED tables

\* points_in_polygon with geom__intersects for geom__within.
points_in_polygon_intersects(polygon_id) ==
    /\ resp' = IF polygon_id \notin DOMAIN polygons
               THEN NotFound("points_in_polygon", <<polygon_id>>, "Polygon not found")
               ELSE LET polygon == polygons[polygon_id]
                        found == { i \in DOMAIN points : Intersects(points[i].geom, polygon.geom) }
                    IN Ok("points_in_polygon", <<polygon_id>>, [points |-> Values(points, found)])
    /\ UNCHANGED tables

points_in_polygon(polygon_id) ==
    /\ resp' = IF polygon_id \notin DOMAIN polygons
               THEN NotFound("points_in_polygon", <<polygon_id>>, "Polygon not found")
               ELSE LET polygon == polygons[polygon_id]
                        found == { i \in DOMAIN points : Within(points[i].geom, polygon.geom) }
                    IN Ok("points_in_polygon", <<polygon_id>>, [points |-> Values(points, found)])
    /\ UNCHANGED tables

\* Distance('geom', point): the squared grid distance stands for the metres
\* of the engine; it orders the pairs of grid points as the distance does.
Distance(a, b) ==
    (a.coords[1] - b.coords[1]) * (a.coords[1] - b.coords[1])
        + (a.coords[2] - b.coords[2]) * (a.coords[2] - b.coords[2])

\* nearest_point without the order_by: first() is then the row of the least id.
nearest_point_unordered(lng, lat) ==
    /\ LET point == Point(lng, lat)
       IN IF points = Empty
          THEN resp' = Ok("nearest_point", <<lng, lat>>, [error |-> "No points found"])
          ELSE LET nearest == Min(DOMAIN points)
               IN resp' = Ok("nearest_point", <<lng, lat>>,
                             [id |-> nearest, name |-> points[nearest].name,
                              distance_meters |-> Distance(points[nearest].geom, point)])
    /\ UNCHANGED tables

\* order_by('distance').first(): a row no other row precedes; the engine
\* breaks ties as it likes.
nearest_point(lng, lat) ==
    /\ LET point == Point(lng, lat)
       IN IF points = Empty
          THEN resp' = Ok("nearest_point", <<lng, lat>>, [error |-> "No points found"])
          ELSE \E nearest \in DOMAIN points :
                  /\ \A i \in DOMAIN points :
                        Distance(points[nearest].geom, point) <= Distance(points[i].geom, point)
                  /\ resp' = Ok("nearest_point", <<lng, lat>>,
                                [id |-> nearest, name |-> points[nearest].name,
                                 distance_meters |-> Distance(points[nearest].geom, point)])
    /\ UNCHANGED tables

intersection(poly1_id, poly2_id) ==
    /\ resp' = IF poly1_id \notin DOMAIN polygons \/ poly2_id \notin DOMAIN polygons
               THEN NotFound("intersection", <<poly1_id, poly2_id>>, "One or both polygons not found")
               ELSE LET cells == Cells(polygons[poly1_id].geom) \cap Cells(polygons[poly2_id].geom)
                    IN Ok("intersection", <<poly1_id, poly2_id>>,
                          [intersection_geojson |-> IF cells # {} THEN Computed(cells) ELSE None])
    /\ UNCHANGED tables

\* difference with the second lookup outside the try: only a missing first
\* polygon is answered 404.
difference_second_unguarded(poly1_id, poly2_id) ==
    /\ resp' = IF poly1_id \notin DOMAIN polygons
               THEN NotFound("difference", <<poly1_id, poly2_id>>, "One or both polygons not found")
               ELSE IF poly2_id \notin DOMAIN polygons
               THEN ServerError("difference", <<poly1_id, poly2_id>>)
               ELSE LET cells == Closure(Cells(polygons[poly1_id].geom) \ Cells(polygons[poly2_id].geom))
                    IN Ok("difference", <<poly1_id, poly2_id>>,
                          [difference_geojson |-> IF cells # {} THEN Computed(cells) ELSE None])
    /\ UNCHANGED tables

difference(poly1_id, poly2_id) ==
    /\ resp' = IF poly1_id \notin DOMAIN polygons \/ poly2_id \notin DOMAIN polygons
               THEN NotFound("difference", <<poly1_id, poly2_id>>, "One or both polygons not found")
               ELSE LET cells == Closure(Cells(polygons[poly1_id].geom) \ Cells(polygons[poly2_id].geom))
                    IN Ok("difference", <<poly1_id, poly2_id>>,
                          [difference_geojson |-> IF cells # {} THEN Computed(cells) ELSE None])
    /\ UNCHANGED tables

\* The orders in which a query without ORDER BY may return the rows.
RowOrders(table) ==
    { o \in [1..Cardinality(DOMAIN table) -> DOMAIN table] :
        \A i, j \in DOMAIN o : i # j => o[i] # o[j] }

\* The union the loop builds: first() is the row of the least id, the slice
\* [1:] the rows after the first of the order the database returns.
RECURSIVE UnionOver(_, _, _)
UnionOver(union_geom, rows, k) ==
    IF k > Len(rows) THEN union_geom
    ELSE UnionOver(union_geom \cup Cells(polygons[rows[k]].geom), rows, k + 1)

union_all_polygons(rows) ==
    /\ resp' = IF polygons # Empty
               THEN LET first == Min(DOMAIN polygons)
                    IN Ok("union_all_polygons", <<>>,
                          [union_geojson |-> Computed(UnionOver(Cells(polygons[first].geom), rows, 2))])
               ELSE Ok("union_all_polygons", <<>>, [union_geojson |-> None])
    /\ UNCHANGED tables

\* ---------------------------------------------------------------- specifications of the queries

\* The polygon table and the queries that read it alone.
PolygonNext ==
    \/ \E doc \in PolygonDocs : create_polygon("a", doc)
    \/ \E id \in Ids, doc \in PolygonDocs : update_polygon(id, "a", doc)
    \/ \E id \in Ids : delete_polygon(id)
    \/ \E s \in Strips : polygons_in_bbox(s[1], 0, s[2], MaxY)
    \/ \E id1 \in Ids, id2 \in Ids : intersection(id1, id2)
    \/ \E id1 \in Ids, id2 \in Ids : difference(id1, id2)
    \/ \E rows \in RowOrders(polygons) : union_all_polygons(rows)

SpecPolygon == Init /\ [][PolygonNext]_vars

\* The polygon table and the two overlay operations.
OverlayNext ==
    \/ \E doc \in PolygonDocs : create_polygon("a", doc)
    \/ \E id \in Ids, doc \in PolygonDocs : update_polygon(id, "a", doc)
    \/ \E id \in Ids : delete_polygon(id)
    \/ \E id1 \in Ids, id2 \in Ids : intersection(id1, id2)
    \/ \E id1 \in Ids, id2 \in Ids : difference(id1, id2)

SpecOverlay == Init /\ [][OverlayNext]_vars

\* The point and polygon tables and the spatial join.  Rows are created and
\* deleted; an update leaves a table as the create of its payload would.
JoinNext ==
    \/ \E lng \in Coords, lat \in PointYs : Created < MaxCreates /\ create_point("a", lng, lat)
    \/ \E id \in Ids : delete_point(id)
    \/ \E doc \in PolygonDocs : Created < MaxCreates /\ create_polygon("a", doc)
    \/ \E id \in Ids : delete_polygon(id)
    \/ \E id \in Ids : points_in_polygon(id)

SpecJoin == Init /\ [][JoinNext]_vars

\* The point table and the nearest-neighbour query.
NearestNext ==
    \/ \E lng \in Coords, lat \in PointYs : create_point("a", lng, lat)
    \/ \E id \in Ids, lng \in Coords, lat \in PointYs : update_point(id, "a", lng, lat)
    \/ \E id \in Ids : delete_point(id)
    \/ \E lng \in Coords, lat \in PointYs : nearest_point(lng, lat)

SpecNearest == Init /\ [][NearestNext]_vars

\* ---------------------------------------------------------------- users

\* An email address is a sequence of characters, here of ASCII letters: for
\* these str.lower() and the database's UPPER() fold the same pairs.  What
\* UPPER() makes of other letters is the database collation's choice.
Letters == {"a", "A", "b"}
Emails == [1..MaxEmailLen -> Letters]

LowerChar(c) == CASE c = "A" -> "a" [] c = "B" -> "b" [] OTHER -> c
UpperChar(c) == CASE c = "a" -> "A" [] c = "b" -> "B" [] OTHER -> c

\* str.lower()
lower(email) == [i \in DOMAIN email |-> LowerChar(email[i])]

\* UPPER(...) of the database, which email__iexact compares under.
UPPER(email) == [i \in DOMAIN email |-> UpperChar(email[i])]

\* CustomUser.save of the user with primary key pk (0: a user not yet
\* stored) and this email, as it was assigned to the instance.  The email
\* column is unique: a second row with the same email is refused.
save_unlowered(pk, email) ==
    LET stored == email
        id == IF pk = 0 THEN user_seq + 1 ELSE pk
    IN /\ pk = 0 => user_seq < MaxId
       /\ IF \E u \in DOMAIN users \ {id} : users[u].email = stored
          THEN /\ resp' = Raised("save", <<pk, email>>, "IntegrityError")
               /\ UNCHANGED <<users, user_seq>>
          ELSE /\ users' = Insert(users, id, [email |-> stored])
               /\ user_seq' = IF pk = 0 THEN id ELSE user_seq
               /\ resp' = Ok("save", <<pk, email>>, [id |-> id, email |-> stored])
       /\ UNCHANGED <<pointVars, polygonVars, lineVars, latest>>

save(pk, email) ==
    LET stored == lower(email)
        id == IF pk = 0 THEN user_seq + 1 ELSE pk
    IN /\ pk = 0 => user_seq < MaxId
       /\ IF \E u \in DOMAIN users \ {id} : users[u].email = stored
          THEN /\ resp' = Raised("save", <<pk, email>>, "IntegrityError")
               /\ UNCHANGED <<users, user_seq>>
          ELSE /\ users' = Insert(users, id, [email |-> stored])
               /\ user_seq' = IF pk = 0 THEN id ELSE user_seq
               /\ resp' = Ok("save", <<pk, email>>, [id |-> id, email |-> stored])
       /\ UNCHANGED <<pointVars, polygonVars, lineVars, latest>>

\* The rows email__iexact=email selects.
iexact(email) == { u \in DOMAIN users : UPPER(users[u].email) = UPPER(email) }

\* CustomUserManager.get_by_natural_key: get() wants exactly one row.
get_by_natural_key(email) ==
    /\ LET found == iexact(email)
       IN resp' = IF found = {} THEN Raised("get_by_natural_key", <<email>>, "DoesNotExist")
                  ELSE IF Cardinality(found) > 1
                  THEN Raised("get_by_natural_key", <<email>>, "MultipleObjectsReturned")
                  ELSE LET u == CHOOSE u \in found : TRUE
                       IN Ok("get_by_natural_key", <<email>>, [id |-> u, email |-> users[u].email])
    /\ UNCHANGED tables

UserNext ==
    \/ \E email \in Emails : save(0, email)
    \/ \E pk \in DOMAIN users, email \in Emails : save(pk, email)
    \/ \E email \in Emails : get_by_natural_key(email)

SpecUser == Init /\ [][UserNext]_vars

\* ---------------------------------------------------------------- C2

BboxArg == from_bbox(resp.args[1], resp.args[2], resp.args[3], resp.args[4])

\* C2: polygons_in_bbox answers with exactly the stored polygons that lie
\* within the bounding box.
BboxReturnsPolygonsWithin ==
    resp.op = "polygons_in_bbox" =>
        resp.body.polygons =
            Values(polygons, { i \in DOMAIN polygons : Within(polygons[i].geom, BboxArg) })

\* ---------------------------------------------------------------- C3

\* C3: union_all_polygons answers with the union of the geometries of every
\* stored polygon, whatever the order of the rows, and with null when no
\* polygon is stored.
UnionCoversEveryPolygon ==
    resp.op = "union_all_polygons" =>
        resp.body.union_geojson =
            IF polygons = Empty THEN None
            ELSE Computed(UNION { Cells(polygons[i].geom) : i \in DOMAIN polygons })

\* ---------------------------------------------------------------- C4

\* C4: points_in_polygon answers with exactly the stored points within the
\* stored polygon of that id, answers 404 "Polygon not found" when there is
\* none, and leaves the stored points and polygons as they were.
PointsInPolygonContract ==
    [][resp'.op = "points_in_polygon" =>
          LET polygon_id == resp'.args[1]
          IN /\ polygon_id \notin DOMAIN polygons =>
                   resp'.status = 404 /\ resp'.body = [error |-> "Polygon not found"]
             /\ polygon_id \in DOMAIN polygons =>
                   /\ resp'.status = 200
                   /\ resp'.body.points =
                         { [id |-> i, name |-> points[i].name, geojson |-> geojson(points[i].geom)] :
                             i \in { j \in DOMAIN points :
                                       Within(points[j].geom, polygons[polygon_id].geom) } }
             /\ points' = points /\ polygons' = polygons]_vars

\* A join that found one stored point and left out one on the polygon's
\* boundary.
PointsInPolygonWitness ==
    /\ resp.op = "points_in_polygon" /\ resp.status = 200
    /\ \E i \in DOMAIN points : \E r \in resp.body.points : r.id = i
    /\ \E i \in DOMAIN points :
          /\ Intersects(points[i].geom, polygons[resp.args[1]].geom)
          /\ \A r \in resp.body.points : r.id # i

\* ---------------------------------------------------------------- C5

OverlayContract ==
    resp.op \in {"intersection", "difference"} =>
        LET id1 == resp.args[1]
            id2 == resp.args[2]
        IN IF id1 \notin DOMAIN polygons \/ id2 \notin DOMAIN polygons
           THEN resp.status = 404 /\ resp.body = [error |-> "One or both polygons not found"]
           ELSE LET g1 == Cells(polygons[id1].geom)
                    g2 == Cells(polygons[id2].geom)
                    both == { c \in g1 : c \in g2 }
                    rest == Closure({ c \in g1 : c \notin g2 })
                IN /\ resp.status = 200
                   /\ resp.op = "intersection" =>
                         resp.body = [intersection_geojson |-> IF both = {} THEN None ELSE Computed(both)]
                   /\ resp.op = "difference" =>
                         resp.body = [difference_geojson |-> IF rest = {} THEN None ELSE Computed(rest)]

\* A difference asked for a stored first polygon and a missing second one.
OverlaySecondMissingWitness ==
    /\ resp.op = "difference" /\ resp.status = 404
    /\ resp.args[1] \in DOMAIN polygons /\ resp.args[2] \notin DOMAIN polygons

\* ---------------------------------------------------------------- C7

\* C7: nearest_point answers with the id of a stored point that no stored
\* point is nearer to the location than, and with the error "No points
\* found" when no point is stored.
NearestIsNearest ==
    resp.op = "nearest_point" =>
        IF points = Empty
        THEN resp.body = [error |-> "No points found"]
        ELSE LET q == Point(resp.args[1], resp.args[2])
             IN /\ resp.body.id \in DOMAIN points
                /\ \A i \in DOMAIN points :
                      Distance(points[resp.body.id].geom, q) <= Distance(points[i].geom, q)

\* The nearest point is the second of two stored points, the first being
\* farther away.
NearestWitness ==
    /\ resp.op = "nearest_point" /\ DOMAIN points = {1, 2}
    /\ resp.body.id = 2
    /\ Distance(points[1].geom, Point(resp.args[1], resp.args[2])) > resp.body.distance_meters

====
